---- MODULE Spec2Model ----
(***************************************************************************)
(* The quote-request pipeline of discord-price-ticker:                     *)
(*   - one periodic producer task per crypto ticker                        *)
(*     (run_periodic_crypto_fetch_job_loop, src/src/main.rs),              *)
(*   - the single consumer of the shared request queue                     *)
(*     (consume_crypto_price_requests, src/src/quote/req_consumer.rs),     *)
(*   - the Ctrl+C handler and the join loop of main (src/src/main.rs).     *)
(***************************************************************************)
EXTENDS Integers, Sequences, FiniteSets, TLC

\* ------------------------------------------------------------------ bounds
\* number of entries of config.tickers
NumTickers == 2
\* number of requests the producers may submit, all together, before the
\* model keeps them at the top of their loop
MaxRequests == 2

\* ----------------------------------------------------- program constants
\* let mut retry_count = 3;
RetryBudget == 3
\* sleep(Duration::from_secs(1)) of sleep_then_continue
RetryDelaySecs == 1

Tickers == 1..NumTickers

AssetIds == <<"bitcoin", "ethereum", "solana", "dogecoin">>

\* ticker_config.name: the asset id of ticker p (distinct per ticker)
Name(p) == AssetIds[p]

\* const VS_CURRENCY
VS_CURRENCY == "usd"

\* ----------------------------------------------------------- error values
\* enum QuoteRequestError and its From impls
HttpRequest == [variant |-> "HttpRequest", msg |-> ""]
JsonParse == [variant |-> "JsonParse", msg |-> ""]
ParseBigDecimal == [variant |-> "ParseBigDecimal", msg |-> ""]
Other(m) == [variant |-> "Other", msg |-> m]

MsgNoError == "No Error"
MsgMissingId == "missing id of the API response, or is not an object"
MsgMissingFields == "missing usd and/or usd_24h_change field(s) in the API response"
MsgPriceNotNumber == "cannot parse USD price as Number from the API response"
MsgChangeNotF64 == "cannot parse 24h change as f64 from the API response"

\* AssetQuoteResponse::dummy()
Dummy == [name |-> "dummy", price_usd |-> -99999, price_change_24h |-> -999]

\* ------------------------------------------------- replies of the remote
\* values of the "usd" member of the asset object
Prices == {100, 65761}
UsdVals ==
    {[k |-> "absent"], [k |-> "notnumber"], [k |-> "baddecimal"]}
        \cup {[k |-> "num", v |-> x] : x \in Prices}
\* values of the "usd_24h_change" member of the asset object
Changes == {2}
ChgVals ==
    {[k |-> "absent"], [k |-> "notnumber"]}
        \cup {[k |-> "num", v |-> x] : x \in Changes}
\* the value stored under a key of the top-level JSON object
AssetVals ==
    {[k |-> "notobject"]}
        \cup {[k |-> "object", usd |-> u, chg |-> c] : u \in UsdVals, c \in ChgVals}
\* a well-formed asset object
GoodVals ==
    {[k |-> "object", usd |-> [k |-> "num", v |-> x], chg |-> [k |-> "num", v |-> y]] :
        x \in Prices, y \in Changes}
\* what one http_req.send() for the asset id `name` can come back with: no
\* response, an unreadable body, a body that is not JSON, JSON that is not
\* an object, the empty object, an object with the asked key and any value,
\* or an object with the key of another ticker and a well-formed value
AllReplies(name) ==
    {[t |-> "send_err"], [t |-> "text_err"], [t |-> "bad_json"],
     [t |-> "json_not_object"], [t |-> "json_object", has |-> FALSE]}
        \cup {[t |-> "json_object", has |-> TRUE, key |-> name, val |-> a] :
                 a \in AssetVals}
        \cup {[t |-> "json_object", has |-> TRUE, key |-> Name(p), val |-> a] :
                 p \in Tickers, a \in GoodVals}
\* one reply for each way an attempt can end: a retry (no response, or the
\* well-formed object of another ticker), a dead consumer thread, a success
PlainReplies(name) ==
    {[t |-> "send_err"], [t |-> "json_not_object"]}
        \cup {[t |-> "json_object", has |-> TRUE, key |-> Name(p), val |-> a] :
                 p \in Tickers, a \in GoodVals}

\* ------------------------------------------------------------ format_price
\* A BigDecimal is int_val * 10^(-scale); the prices and the numbers of
\* decimals tried
MaxScale == 3
MaxUnscaled == 1005
MaxDecimals == 255

BigDecimals == [int_val : -MaxUnscaled..MaxUnscaled, scale : -MaxScale..MaxScale]

Decimals == 0..(MaxScale + 1) \cup {MaxDecimals}

Abs(n) == IF n < 0 THEN -n ELSE n

DigitChars == <<"0", "1", "2", "3", "4", "5", "6", "7", "8", "9">>

RECURSIVE Digits(_)
Digits(n) ==
    IF n < 10 THEN <<DigitChars[n + 1]>>
    ELSE Digits(n \div 10) \o <<DigitChars[(n % 10) + 1]>>

Zeros(n) == [i \in 1..n |-> "0"]

\* BigDecimal::fractional_digit_count: the scale, trailing zeros included
fractional_digit_count(x) == x.scale

\* RoundingMode: is the quotient q, with remainder r of the division by k,
\* rounded away from zero
HalfUp(q, r, k) == 2 * r >= k

HalfEven(q, r, k) == 2 * r > k \/ (2 * r = k /\ q % 2 = 1)

\* BigDecimal::with_scale_round(new_scale, RoundingMode::HalfEven)
with_scale_round(x, new_scale) ==
    IF new_scale >= x.scale
      THEN [int_val |-> x.int_val * 10^(new_scale - x.scale), scale |-> new_scale]
      ELSE LET k == 10^(x.scale - new_scale)
               q == Abs(x.int_val) \div k
               r == Abs(x.int_val) % k
               m == IF HalfEven(q, r, k) THEN q + 1 ELSE q
           IN  [int_val |-> IF x.int_val < 0 THEN -m ELSE m, scale |-> new_scale]

\* BigDecimal's Display, as a sequence of characters: the digits of int_val
\* with the point scale places from the right, zeros filled in on either
\* side as needed (within these scales no exponent form is used)
to_string(x) ==
    LET s == Digits(Abs(x.int_val))
        n == Len(s)
        body == IF x.scale <= 0 THEN s \o Zeros(-x.scale)
                ELSE IF n > x.scale
                  THEN SubSeq(s, 1, n - x.scale) \o <<".">>
                           \o SubSeq(s, n - x.scale + 1, n)
                  ELSE <<"0", ".">> \o Zeros(x.scale - n) \o s
    IN  (IF x.int_val < 0 THEN <<"-">> ELSE <<>>) \o body

\* main.rs 163-171
format_price(price, decimals) ==
    IF fractional_digit_count(price) > decimals
      THEN to_string(with_scale_round(price, decimals))
      ELSE to_string(price)

\* config.rs 5: the configured key, empty or not
DemoKey == "CG-demo-key"

\* the keys tried for a configuration: both when at most one ticker is
\* crypto, the non-empty one otherwise
ApiKeys(c) ==
    IF Cardinality({p \in Tickers : c[p]}) <= 1 THEN {"", DemoKey} ELSE {DemoKey}

\* req_consumer.rs 35-38: the headers put on the GET request
RequestHeaders(key) ==
    <<[name |-> "accept", value |-> "application/json"],
      [name |-> "x-cg-demo-api-key", value |-> key]>>

\* the body {"<name>":{"usd":<number>}}: the asset object with a price and
\* no usd_24h_change member
PriceWithoutChange(name, reply) ==
    /\ reply.t = "json_object"
    /\ reply.has
    /\ reply.key = name
    /\ reply.val.k = "object"
    /\ reply.val.usd.k = "num"
    /\ reply.val.chg.k = "absent"

\* ------------------------------------------------------------ one attempt
\* The outcome of one pass through the body of `while retry_count > 0`
\* for request req when the remote answers with reply:
\*   "panic" : an unwrap() fails and the consumer thread dies,
\*   "retry" : err is recorded and sleep_then_continue! runs,
\*   "ok"    : result is assigned and the loop is left with break.
AttemptOutcomeNoKeyCheck(req, reply) ==
    IF reply.t = "send_err" THEN [o |-> "retry", err |-> HttpRequest]
    ELSE IF reply.t = "text_err" THEN [o |-> "panic"]
    ELSE IF reply.t = "bad_json" THEN [o |-> "retry", err |-> JsonParse]
    ELSE IF reply.t = "json_not_object" THEN [o |-> "panic"]
    ELSE IF ~reply.has \/ reply.key # req.name \/ reply.val.k # "object"
        THEN [o |-> "retry", err |-> Other(MsgMissingId)]
    ELSE IF reply.val.usd.k \in {"absent", "notnumber"}
        THEN [o |-> "retry", err |-> Other(MsgPriceNotNumber)]
    ELSE IF reply.val.usd.k = "baddecimal"
        THEN [o |-> "retry", err |-> ParseBigDecimal]
    ELSE IF reply.val.chg.k \in {"absent", "notnumber"}
        THEN [o |-> "retry", err |-> Other(MsgChangeNotF64)]
    ELSE [o |-> "ok",
          result |-> [name |-> req.name,
                      price_usd |-> reply.val.usd.v,
                      price_change_24h |-> reply.val.chg.v]]

AttemptOutcome(req, reply) ==
    IF reply.t = "send_err" THEN [o |-> "retry", err |-> HttpRequest]
    ELSE IF reply.t = "text_err" THEN [o |-> "panic"]
    ELSE IF reply.t = "bad_json" THEN [o |-> "retry", err |-> JsonParse]
    ELSE IF reply.t = "json_not_object" THEN [o |-> "panic"]
    ELSE IF ~reply.has \/ reply.key # req.name \/ reply.val.k # "object"
        THEN [o |-> "retry", err |-> Other(MsgMissingId)]
    ELSE IF reply.val.usd.k = "absent" \/ reply.val.chg.k = "absent"
        THEN [o |-> "retry", err |-> Other(MsgMissingFields)]
    ELSE IF reply.val.usd.k = "notnumber"
        THEN [o |-> "retry", err |-> Other(MsgPriceNotNumber)]
    ELSE IF reply.val.usd.k = "baddecimal"
        THEN [o |-> "retry", err |-> ParseBigDecimal]
    ELSE IF reply.val.chg.k = "notnumber"
        THEN [o |-> "retry", err |-> Other(MsgChangeNotF64)]
    ELSE [o |-> "ok",
          result |-> [name |-> req.name,
                      price_usd |-> reply.val.usd.v,
                      price_change_24h |-> reply.val.chg.v]]

\* ------------------------------------------------------------------ state
VARIABLES
    api_key,         \* Config.coingecko_api_key
    fmt,             \* one call of format_price: its arguments and its result
    after_signal,    \* history: the requests a producer has submitted and the
                     \* updates it has published since its stop signal was sent
    crypto,          \* ticker_config.crypto of every ticker (the config read)
    ppc,             \* where each producer task stands
    cycles,          \* requests submitted so far by each producer
    published,       \* BotUpdateInfo values sent so far by each producer
    timer,           \* the tick_duration timer of the producer's wait has fired
    stop_signal,     \* the oneshot channel of each ticker
    get_price_chan,  \* the response channel of each producer: queued results
    job_queue,       \* crypto_price_req channel: queued AssetQuoteRequests
    chan_uses,       \* history: requests submitted with a handle to each channel
    job_rx_alive,    \* the consumer still holds job_receiver
    cpc,             \* where the consumer thread stands
    held,            \* requests dequeued whose result has not been sent
    retry_count,     \* locals of the consumer's for body
    result,
    err,
    attempts,        \* history: http_req.send() calls made for the held request
    sleeps,          \* history: 1-second sleeps taken for the held request
    first_fail,      \* history: the error of the first failed attempt
    last_fail,       \* history: the error of the latest failed attempt
    ok_reply,        \* history: the reply of the attempt that succeeded
    call_headers,    \* history: the headers of the last pricing call made for
                     \* the held request
    nochange_only,   \* history: every reply for the held request so far was
                     \* the asset object with a price and no usd_24h_change
    ndeq,            \* history: requests dequeued so far
    nsend,           \* history: resp_sender.send calls made so far
    hpc,             \* the Ctrl+C handler task: "wait", "send" or "done"
    hidx,            \* next entry of stop_signal_channels to signal
    sig_sends,       \* history: stop_signal.send calls made for each ticker
    mpc,             \* main: "join" or "exited"
    joined           \* tickers whose task main has awaited (or skipped)

vars == <<crypto, api_key, fmt, after_signal, ppc, cycles, published, timer, stop_signal, get_price_chan,
          job_queue, chan_uses, job_rx_alive, cpc, held, retry_count, result,
          err, attempts, sleeps, first_fail, last_fail, ok_reply, nochange_only,
          call_headers, ndeq, nsend, hpc, hidx, sig_sends, mpc, joined>>

prodVars == <<ppc, cycles, published, timer, stop_signal, get_price_chan>>
consVars == <<cpc, held, retry_count, result, err, attempts, sleeps, first_fail,
              last_fail, ok_reply, nochange_only, call_headers, ndeq, nsend>>
orchVars == <<hpc, hidx, sig_sends, mpc, joined>>

NoReply == [t |-> "none"]
NoFail == [variant |-> "none", msg |-> ""]

\* the state once main has spawned every task (main.rs 217-299)
PipelineInit ==
    /\ after_signal = [p \in Tickers |-> [sub |-> 0, pub |-> 0]]
    /\ crypto \in [Tickers -> BOOLEAN]
    /\ api_key \in ApiKeys(crypto)
    /\ ppc = [p \in Tickers |-> IF crypto[p] THEN "top" ELSE "not_spawned"]
    /\ cycles = [p \in Tickers |-> 0]
    /\ published = [p \in Tickers |-> 0]
    /\ timer = [p \in Tickers |-> FALSE]
    /\ stop_signal = [p \in Tickers |-> "empty"]
    /\ get_price_chan = [p \in Tickers |-> <<>>]
    /\ job_queue = <<>>
    /\ chan_uses = [p \in Tickers |-> 0]
    /\ job_rx_alive = TRUE
    /\ cpc = "recv"
    /\ held = <<>>
    /\ retry_count = 0
    /\ result = Dummy
    /\ err = Other(MsgNoError)
    /\ attempts = 0
    /\ sleeps = 0
    /\ first_fail = NoFail
    /\ last_fail = NoFail
    /\ ok_reply = NoReply
    /\ nochange_only = FALSE
    /\ call_headers = <<>>
    /\ ndeq = 0
    /\ nsend = 0
    /\ hpc = "wait"
    /\ hidx = 1
    /\ sig_sends = [p \in Tickers |-> 0]
    /\ mpc = "join"
    /\ joined = 0

\* no call of format_price is followed
NoFormat ==
    [price |-> [int_val |-> 0, scale |-> 0], decimals |-> 0, out |-> <<>>,
     done |-> FALSE]

Init ==
    /\ fmt = NoFormat
    /\ PipelineInit

\* The replies tried depend on the configuration read: with a single crypto
\* ticker every shape of reply is tried for each attempt; with several
\* producers at work, one reply for each way an attempt can end.
Replies(name) ==
    IF Cardinality({p \in Tickers : crypto[p]}) <= 1
      THEN AllReplies(name) ELSE PlainReplies(name)

\* ------------------------------------------------------- channel helpers
\* the task of ticker p runs: it was spawned and has not returned
Running(p) == ppc[p] \notin {"not_spawned", "stopped"}

\* oneshot::Receiver::try_recv on the stop signal of a producer
TryRecvNeverOk(s) == IF s = "taken" THEN "Closed" ELSE "Empty"

TryRecv(s) ==
    IF s = "sent" THEN "Ok" ELSE IF s = "empty" THEN "Empty" ELSE "Closed"

\* the request a producer builds in one cycle (main.rs 85-89); seq is the
\* position at which the request enters the shared queue (history)
NewRequestShared(p, n) ==
    [name |-> Name(p), vs_currency |-> VS_CURRENCY, resp_sender |-> 1, seq |-> n]

NewRequest(p, n) ==
    [name |-> Name(p), vs_currency |-> VS_CURRENCY, resp_sender |-> p, seq |-> n]

\* requests submitted so far, by all producers
Submitted == LET Sum[i \in 0..NumTickers] ==
                    IF i = 0 THEN 0 ELSE Sum[i - 1] + cycles[i]
             IN Sum[NumTickers]

\* producers that have passed the top of the loop and are about to submit
Submitting == Cardinality({p \in Tickers : ppc[p] = "submit"})

\* live senders of producer p's response channel: the handle the task keeps
\* (main.rs 73) and the clone inside every request not yet dropped
SenderCountClonesOnly(p) ==
    Cardinality({i \in 1..Len(job_queue) : job_queue[i].resp_sender = p})
        + Cardinality({i \in 1..Len(held) : held[i].resp_sender = p})

SenderCount(p) ==
    (IF Running(p) THEN 1 ELSE 0)
        + Cardinality({i \in 1..Len(job_queue) : job_queue[i].resp_sender = p})
        + Cardinality({i \in 1..Len(held) : held[i].resp_sender = p})

\* ---------------------------------------------------------- the producer
\* the history after_signal is kept in the configurations with at most one
\* crypto ticker, where every interleaving of a producer's steps with its
\* stop signal occurs
Tracked == Cardinality({p \in Tickers : crypto[p]}) <= 1

\* the history after_signal of a producer is kept until its task ends
CountEnds(p) == [after_signal EXCEPT ![p] = [sub |-> 0, pub |-> 0]]

\* break_if_signaled! (main.rs 51-70): the task ends when the signal was
\* sent or the channel is closed; on Empty the loop goes on at pc next.
\* In the Ok arm the receiver, already completed by try_recv, is awaited
\* once more before break: tokio's oneshot receiver panics when polled
\* after completion, so the task ends there either way (by break or by
\* unwinding); both are the state "stopped", the JoinHandle resolves and
\* every handle the task owns is dropped.
BreakIfSignaled(p, next) ==
    LET r == TryRecv(stop_signal[p]) IN
    /\ ppc' = [ppc EXCEPT ![p] = IF r = "Empty" THEN next ELSE "stopped"]
    /\ after_signal' = IF r = "Empty" THEN after_signal ELSE CountEnds(p)
    /\ stop_signal' = [stop_signal EXCEPT ![p] = IF r = "Ok" THEN "taken" ELSE @]

\* main.rs 75-76: top of the loop
P_Top(p) ==
    /\ mpc = "join"
    /\ ppc[p] = "top"
    /\ stop_signal[p] # "empty" \/ Submitted + Submitting < MaxRequests
    /\ BreakIfSignaled(p, "submit")
    /\ UNCHANGED <<crypto, api_key, fmt, cycles, published, timer, get_price_chan,
                   job_queue, chan_uses, job_rx_alive>>
    /\ UNCHANGED consVars
    /\ UNCHANGED orchVars

\* main.rs 91-97: job_sender.send returned Err; the loop is left (break)
OnSendErrorNextCycle(p) == [ppc EXCEPT ![p] = "top"]

OnSendError(p) == [ppc EXCEPT ![p] = "stopped"]

\* main.rs 83-97: build the request and send it to the shared queue
P_Submit(p) ==
    /\ mpc = "join"
    /\ ppc[p] = "submit"
    /\ IF job_rx_alive
         THEN /\ job_queue' = Append(job_queue, NewRequest(p, Submitted + 1))
              /\ chan_uses' = [chan_uses EXCEPT
                    ![NewRequest(p, Submitted + 1).resp_sender] = @ + 1]
              /\ cycles' = [cycles EXCEPT ![p] = @ + 1]
              /\ ppc' = [ppc EXCEPT ![p] = "await"]
         ELSE /\ ppc' = OnSendError(p)
              /\ UNCHANGED <<job_queue, chan_uses, cycles>>
    /\ after_signal' =
          IF ~job_rx_alive THEN CountEnds(p)
          ELSE IF stop_signal[p] = "sent" /\ Tracked
            THEN [after_signal EXCEPT ![p].sub = @ + 1] ELSE after_signal
    /\ UNCHANGED <<crypto, api_key, fmt, published, timer, stop_signal, get_price_chan,
                   job_rx_alive>>
    /\ UNCHANGED consVars
    /\ UNCHANGED orchVars

\* main.rs 99: get_price_chan_receiver.recv().await returns when a value is
\* in the channel or when every sender of it is gone
RecvReadyNoWait(p) == TRUE

RecvReady(p) == get_price_chan[p] # <<>> \/ SenderCount(p) = 0

\* main.rs 99-120: wait for the response and look at it
P_Recv(p) ==
    /\ mpc = "join"
    /\ ppc[p] = "await"
    /\ RecvReady(p)
    /\ IF get_price_chan[p] # <<>>
         THEN /\ get_price_chan' = [get_price_chan EXCEPT ![p] = Tail(@)]
              /\ ppc' = [ppc EXCEPT ![p] =
                    IF Head(get_price_chan[p]).ok THEN "pre_publish" ELSE "err_sleep"]
         ELSE /\ ppc' = [ppc EXCEPT ![p] = "top"]
              /\ UNCHANGED get_price_chan
    /\ timer' = [timer EXCEPT ![p] = FALSE]
    /\ UNCHANGED <<crypto, api_key, fmt, after_signal, cycles, published, stop_signal, job_queue, chan_uses,
                   job_rx_alive>>
    /\ UNCHANGED consVars
    /\ UNCHANGED orchVars

\* main.rs 117: tokio::time::sleep(tick_duration).await returns when the
\* interval has elapsed, and for no other reason
SleepOverAtOnce(p) == TRUE

SleepOver(p) == timer[p]

\* main.rs 117-118: tokio::time::sleep(tick_duration), then continue
P_ErrSleep(p) ==
    /\ mpc = "join"
    /\ ppc[p] = "err_sleep"
    /\ SleepOver(p)
    /\ ppc' = [ppc EXCEPT ![p] = "top"]
    /\ timer' = [timer EXCEPT ![p] = FALSE]
    /\ UNCHANGED <<crypto, api_key, fmt, after_signal, cycles, published, stop_signal, get_price_chan,
                   job_queue, chan_uses, job_rx_alive>>
    /\ UNCHANGED consVars
    /\ UNCHANGED orchVars

\* main.rs 122-133: format, then check the signal before publishing
P_PrePublish(p) ==
    /\ mpc = "join"
    /\ ppc[p] = "pre_publish"
    /\ BreakIfSignaled(p, "publish")
    /\ UNCHANGED <<crypto, api_key, fmt, cycles, published, timer, get_price_chan,
                   job_queue, chan_uses, job_rx_alive>>
    /\ UNCHANGED consVars
    /\ UNCHANGED orchVars

\* main.rs 135-149: send the BotUpdateInfo
P_Publish(p) ==
    /\ mpc = "join"
    /\ ppc[p] = "publish"
    /\ published' = [published EXCEPT ![p] = @ + 1]
    /\ ppc' = [ppc EXCEPT ![p] = "post_publish"]
    /\ after_signal' =
          IF stop_signal[p] = "sent" /\ Tracked
            THEN [after_signal EXCEPT ![p].pub = @ + 1] ELSE after_signal
    /\ UNCHANGED <<crypto, api_key, fmt, cycles, timer, stop_signal, get_price_chan,
                   job_queue, chan_uses, job_rx_alive>>
    /\ UNCHANGED consVars
    /\ UNCHANGED orchVars

\* main.rs 151: check the signal after publishing
P_PostPublish(p) ==
    /\ mpc = "join"
    /\ ppc[p] = "post_publish"
    /\ BreakIfSignaled(p, "wait")
    /\ timer' = [timer EXCEPT ![p] = FALSE]
    /\ UNCHANGED <<crypto, api_key, fmt, cycles, published, get_price_chan,
                   job_queue, chan_uses, job_rx_alive>>
    /\ UNCHANGED consVars
    /\ UNCHANGED orchVars

\* timeout(tick_duration, &mut stop_signal_recv): the receiver is polled
\* before the timer, so a ready signal wins over an elapsed timer.
\* "stop": the receiver resolved (Ok(_)), "tick": Err(Elapsed), "pending".
WaitOutcomeTimerFirst(sig, fired) ==
    IF fired THEN "tick" ELSE IF sig # "empty" THEN "stop" ELSE "pending"

WaitOutcome(sig, fired) ==
    IF sig # "empty" THEN "stop" ELSE IF fired THEN "tick" ELSE "pending"

\* main.rs 153-159: wait out the interval, or stop on the signal
P_Wait(p) ==
    /\ mpc = "join"
    /\ ppc[p] = "wait"
    /\ WaitOutcome(stop_signal[p], timer[p]) # "pending"
    /\ ppc' = [ppc EXCEPT ![p] =
          IF WaitOutcome(stop_signal[p], timer[p]) = "stop" THEN "stopped" ELSE "top"]
    /\ stop_signal' = [stop_signal EXCEPT ![p] =
          IF WaitOutcome(stop_signal[p], timer[p]) = "stop" /\ @ = "sent"
            THEN "taken" ELSE @]
    /\ timer' = [timer EXCEPT ![p] = FALSE]
    /\ after_signal' =
          IF WaitOutcome(stop_signal[p], timer[p]) = "stop"
            THEN CountEnds(p) ELSE after_signal
    /\ UNCHANGED <<crypto, api_key, fmt, cycles, published, get_price_chan,
                   job_queue, chan_uses, job_rx_alive>>
    /\ UNCHANGED consVars
    /\ UNCHANGED orchVars

\* tick_duration elapses for a producer that waits on its timer
Tick(p) ==
    /\ mpc = "join"
    /\ ppc[p] \in {"wait", "err_sleep"}
    /\ ~timer[p]
    /\ timer' = [timer EXCEPT ![p] = TRUE]
    /\ UNCHANGED <<crypto, api_key, fmt, after_signal, ppc, cycles, published, stop_signal, get_price_chan,
                   job_queue, chan_uses, job_rx_alive>>
    /\ UNCHANGED consVars
    /\ UNCHANGED orchVars

\* ---------------------------------------------------------- the consumer
\* tokio UnboundedSender::send on the response channel of producer p: the
\* value is queued unless the receiver is gone, in which case send returns
\* Err and the consumer only prints
SendResp(chans, p, v) ==
    IF Running(p) THEN [chans EXCEPT ![p] = Append(@, v)] ELSE chans

\* `for req in job_receiver` takes a request only at the head of the for
\* loop, that is when the body of the previous one has run to its end
CanDequeueAnytime == cpc \in {"recv", "attempt", "sleep", "deliver"}

CanDequeue == cpc = "recv"

\* the receiver yields the oldest queued request
NextIndex(q) == 1

RemoveAt(q, i) == [j \in 1..(Len(q) - 1) |-> IF j < i THEN q[j] ELSE q[j + 1]]

\* while retry_count > 0 (req_consumer.rs 29)
LoopContinuesOneMore(rc) == rc >= 0

LoopContinuesNever(rc) == FALSE

LoopContinues(rc) == rc > 0

\* err = ...; in every failure arm: the new error replaces the old one
RecordErrKeepFirst(old, new) == IF old = Other(MsgNoError) THEN new ELSE old

RecordErr(old, new) == new

\* req_consumer.rs 138-154: what is sent on req.resp_sender
DeliveryOffByOne(rc, res, e) ==
    IF rc <= 1 THEN [ok |-> FALSE, err |-> e] ELSE [ok |-> TRUE, val |-> res]

Delivery(rc, res, e) ==
    IF rc <= 0 THEN [ok |-> FALSE, err |-> e] ELSE [ok |-> TRUE, val |-> res]

\* req_consumer.rs 22-27: take the next request, set up the locals
C_Dequeue ==
    /\ mpc = "join"
    /\ CanDequeue
    /\ job_rx_alive
    /\ job_queue # <<>>
    /\ held' = Append(held, job_queue[NextIndex(job_queue)])
    /\ job_queue' = RemoveAt(job_queue, NextIndex(job_queue))
    /\ retry_count' = RetryBudget
    /\ result' = Dummy
    /\ err' = Other(MsgNoError)
    /\ cpc' = IF LoopContinues(RetryBudget) THEN "attempt" ELSE "deliver"
    /\ attempts' = 0
    /\ sleeps' = 0
    /\ first_fail' = NoFail
    /\ last_fail' = NoFail
    /\ ok_reply' = NoReply
    /\ nochange_only' = TRUE
    /\ call_headers' = <<>>
    /\ ndeq' = ndeq + 1
    /\ UNCHANGED nsend
    /\ UNCHANGED <<crypto, api_key, fmt, after_signal, chan_uses, job_rx_alive>>
    /\ UNCHANGED prodVars
    /\ UNCHANGED orchVars

\* req_consumer.rs 29-136: one pass through the body of the retry loop
C_Attempt ==
    /\ mpc = "join"
    /\ cpc = "attempt"
    /\ \E reply \in Replies(held[Len(held)].name) :
         LET req == held[Len(held)]
             a == AttemptOutcome(req, reply)
         IN
         /\ attempts' = attempts + 1
         /\ nochange_only' = (nochange_only /\ PriceWithoutChange(req.name, reply))
         /\ call_headers' = RequestHeaders(api_key)
         /\ IF a.o = "panic"
              THEN \* the thread unwinds: req, job_receiver and all that is
                   \* queued in it are dropped
                   /\ cpc' = "panicked"
                   /\ held' = <<>>
                   /\ job_queue' = <<>>
                   /\ job_rx_alive' = FALSE
                   /\ UNCHANGED <<retry_count, result, err, first_fail, last_fail,
                                  ok_reply>>
              ELSE IF a.o = "retry"
              THEN /\ err' = RecordErr(err, a.err)
                   /\ first_fail' = IF first_fail = NoFail THEN a.err ELSE first_fail
                   /\ last_fail' = a.err
                   /\ retry_count' = retry_count - 1
                   /\ cpc' = "sleep"
                   /\ UNCHANGED <<result, ok_reply, held, job_queue, job_rx_alive>>
              ELSE /\ result' = a.result
                   /\ ok_reply' = reply
                   /\ cpc' = "deliver"
                   /\ UNCHANGED <<retry_count, err, first_fail, last_fail, held,
                                  job_queue, job_rx_alive>>
    /\ UNCHANGED <<sleeps, ndeq, nsend>>
    /\ UNCHANGED <<crypto, api_key, fmt, after_signal, chan_uses>>
    /\ UNCHANGED prodVars
    /\ UNCHANGED orchVars

\* req_consumer.rs 16-17 and 29: the 1-second sleep ends, continue, and the
\* loop condition is looked at again
C_Sleep ==
    /\ mpc = "join"
    /\ cpc = "sleep"
    /\ sleeps' = sleeps + RetryDelaySecs
    /\ cpc' = IF LoopContinues(retry_count) THEN "attempt" ELSE "deliver"
    /\ UNCHANGED <<held, retry_count, result, err, attempts, first_fail,
                   last_fail, ok_reply, nochange_only, call_headers, ndeq, nsend>>
    /\ UNCHANGED <<crypto, api_key, fmt, after_signal, job_queue, chan_uses, job_rx_alive>>
    /\ UNCHANGED prodVars
    /\ UNCHANGED orchVars

\* req_consumer.rs 138-155: send the result, drop req, next iteration
C_Deliver ==
    /\ mpc = "join"
    /\ cpc = "deliver"
    /\ get_price_chan' =
          SendResp(get_price_chan, held[Len(held)].resp_sender,
                   Delivery(retry_count, result, err))
    /\ held' = SubSeq(held, 1, Len(held) - 1)
    /\ nsend' = nsend + 1
    /\ cpc' = "recv"
    \* the locals of the for body go out of scope
    /\ retry_count' = 0
    /\ result' = Dummy
    /\ err' = Other(MsgNoError)
    /\ attempts' = 0
    /\ sleeps' = 0
    /\ first_fail' = NoFail
    /\ last_fail' = NoFail
    /\ ok_reply' = NoReply
    /\ nochange_only' = FALSE
    /\ call_headers' = <<>>
    /\ UNCHANGED ndeq
    /\ UNCHANGED <<crypto, api_key, fmt, after_signal, ppc, cycles, published, timer, stop_signal,
                   job_queue, chan_uses, job_rx_alive>>
    /\ UNCHANGED orchVars

\* req_consumer.rs 22 and 155: the for loop ends once every sender of the
\* queue is dropped (main's and each producer's clone) and it is drained
C_Close ==
    /\ cpc = "recv"
    /\ job_queue = <<>>
    /\ mpc = "exited"
    /\ \A p \in Tickers : ~Running(p)
    /\ cpc' = "done"
    /\ UNCHANGED <<held, retry_count, result, err, attempts, sleeps, first_fail,
                   last_fail, ok_reply, nochange_only, call_headers, ndeq, nsend>>
    /\ UNCHANGED <<crypto, api_key, fmt, after_signal, job_queue, chan_uses, job_rx_alive>>
    /\ UNCHANGED prodVars
    /\ UNCHANGED orchVars

\* ------------------------------------------------------- the orchestrator
\* main.rs 287-290: signal::ctrl_c() resolves
H_CtrlC ==
    /\ mpc = "join"
    /\ hpc = "wait"
    /\ hpc' = "send"
    /\ UNCHANGED <<hidx, sig_sends, mpc, joined>>
    /\ UNCHANGED <<crypto, api_key, fmt, after_signal, job_queue, chan_uses, job_rx_alive>>
    /\ UNCHANGED prodVars
    /\ UNCHANGED consVars

\* oneshot::Sender::send returns Err when the receiver is dropped
SignalSend(p) == IF Running(p) THEN "Ok" ELSE "Err"

\* main.rs 291-298: the for loop goes on to the next sender whatever the
\* send returned, and ends after the last one
AfterSignalSendAbortOnErr(r, i) ==
    IF r = "Err" \/ i = NumTickers THEN "done" ELSE "send"

AfterSignalSend(r, i) == IF i = NumTickers THEN "done" ELSE "send"

\* main.rs 291-298: stop_signal.send(()) for the next ticker; the send
\* returns Err when the receiver is dropped, which is only logged
H_Send ==
    /\ mpc = "join"
    /\ hpc = "send"
    /\ stop_signal' = [stop_signal EXCEPT ![hidx] =
          IF SignalSend(hidx) = "Ok" THEN "sent" ELSE @]
    /\ sig_sends' = [sig_sends EXCEPT ![hidx] = @ + 1]
    /\ hidx' = hidx + 1
    /\ hpc' = AfterSignalSend(SignalSend(hidx), hidx)
    /\ UNCHANGED <<mpc, joined>>
    /\ UNCHANGED <<crypto, api_key, fmt, after_signal, ppc, cycles, published, timer, get_price_chan,
                   job_queue, chan_uses, job_rx_alive>>
    /\ UNCHANGED consVars

\* main.rs 301-307: await the next task of `tasks` (a ticker that is not
\* crypto has no task); after the last one main returns
M_TaskFinished(p) == ~Running(p)

M_Join ==
    /\ mpc = "join"
    /\ joined < NumTickers
    /\ M_TaskFinished(joined + 1)
    /\ joined' = joined + 1
    /\ mpc' = IF joined + 1 = NumTickers THEN "exited" ELSE "join"
    /\ UNCHANGED <<hpc, hidx, sig_sends>>
    /\ UNCHANGED <<crypto, api_key, fmt, after_signal, job_queue, chan_uses, job_rx_alive>>
    /\ UNCHANGED prodVars
    /\ UNCHANGED consVars

\* ------------------------------------------------------ the specification
Producer(p) ==
    \/ P_Top(p)
    \/ P_Submit(p)
    \/ P_Recv(p)
    \/ P_ErrSleep(p)
    \/ P_PrePublish(p)
    \/ P_Publish(p)
    \/ P_PostPublish(p)
    \/ P_Wait(p)

Consumer ==
    \/ C_Dequeue
    \/ C_Attempt
    \/ C_Sleep
    \/ C_Deliver
    \/ C_Close

Next ==
    \/ \E p \in Tickers : Producer(p)
    \/ \E p \in Tickers : Tick(p)
    \/ Consumer
    \/ H_CtrlC
    \/ H_Send
    \/ M_Join

Spec == Init /\ [][Next]_vars

\* every task that can take a step eventually does; time passes; Ctrl+C is
\* up to the user
FairSpec ==
    /\ Spec
    /\ \A p \in Tickers : WF_vars(Producer(p)) /\ WF_vars(Tick(p))
    /\ WF_vars(Consumer)
    /\ WF_vars(H_Send)
    /\ WF_vars(M_Join)

\* ----------------------------------------------- format_price on its own
\* format_price applied to one price and one number of decimals, with no
\* ticker configured
InitFormat ==
    /\ PipelineInit
    /\ crypto = [p \in Tickers |-> FALSE]
    /\ api_key = DemoKey
    /\ fmt \in [price : BigDecimals, decimals : Decimals, out : {<<>>},
                done : {FALSE}]

F_Format ==
    /\ ~fmt.done
    /\ fmt' = [fmt EXCEPT !.out = format_price(fmt.price, fmt.decimals),
                          !.done = TRUE]
    /\ UNCHANGED <<crypto, api_key, after_signal, job_queue, chan_uses,
                   job_rx_alive>>
    /\ UNCHANGED prodVars
    /\ UNCHANGED consVars
    /\ UNCHANGED orchVars

NextFormat == F_Format

SpecFormat == InitFormat /\ [][NextFormat]_vars

TypeOK ==
    /\ ppc \in [Tickers -> {"not_spawned", "top", "submit", "await", "err_sleep",
                            "pre_publish", "publish", "post_publish", "wait",
                            "stopped"}]
    /\ cpc \in {"recv", "attempt", "sleep", "deliver", "panicked", "done"}
    /\ retry_count \in 0..RetryBudget
    /\ \A p \in Tickers : cycles[p] \in 0..MaxRequests
    /\ Submitted + Submitting <= MaxRequests

\* ================================================================ claims
\* what the consumer is about to send for the request it holds
Pending == Delivery(retry_count, result, err)

\* the consumer is inside the for body of a request
InBody == cpc \in {"attempt", "sleep", "deliver"}

\* C1: every result in a producer's response channel answers that producer's
\* own request: it is there only while the producer waits for it, it is the
\* only one, and an Ok result names the producer's own asset id.
C1_OwnResponseOnly ==
    \A p \in Tickers :
        get_price_chan[p] # <<>> =>
            /\ ppc[p] = "await"
            /\ Len(get_price_chan[p]) = 1
            /\ get_price_chan[p][1].ok => get_price_chan[p][1].val.name = Name(p)

\* two producers with different asset ids each have their Ok result waiting
C1_Witness ==
    /\ Name(1) # Name(2)
    /\ get_price_chan[1] # <<>> /\ get_price_chan[1][1].ok
    /\ get_price_chan[2] # <<>> /\ get_price_chan[2][1].ok

\* C2: the consumer sends on the response channel exactly once for every
\* request it has dequeued: none is pending except the one whose for body
\* is running, and none was sent twice.
C2_ExactlyOneSendPerRequest ==
    nsend = ndeq - (IF InBody THEN 1 ELSE 0)

\* C3: with only retryable failures the consumer makes exactly 3 attempts,
\* a 1-second delay after each failed one, and only then delivers Err.
C3_ThreeAttemptsThenErr ==
    /\ attempts <= 3
    /\ cpc = "attempt" => sleeps = attempts * 1
    /\ cpc = "deliver" /\ ~Pending.ok => attempts = 3 /\ sleeps >= 2
    /\ cpc = "deliver" /\ ok_reply = NoReply => ~Pending.ok

\* three attempts have failed and Err is about to be sent
C3_Witness ==
    cpc = "deliver" /\ attempts = 3 /\ ok_reply = NoReply /\ ~Pending.ok

\* k - 1 failed attempts came before the attempt that succeeded
FailedBefore == sleeps

\* C4: when attempt k is the first to succeed the consumer goes straight to
\* the delivery (k attempts made, none after) and sends Ok with the asset
\* id of the request and the price and 24h change of that attempt's reply.
C4_EarlySuccess ==
    ok_reply # NoReply =>
        /\ cpc = "deliver"
        /\ attempts \in 1..3
        /\ attempts = FailedBefore + 1
        /\ Pending = [ok |-> TRUE,
                      val |-> [name |-> held[1].name,
                               price_usd |-> ok_reply.val.usd.v,
                               price_change_24h |-> ok_reply.val.chg.v]]

\* the third attempt is the first to succeed
C4_Witness ==
    cpc = "deliver" /\ ok_reply # NoReply /\ attempts = 3

\* C5: the consumer's loop has ended only if the request queue is closed
\* (main and every producer have dropped their sender) and drained.
C5_EndsOnlyOnClosedQueue ==
    cpc \in {"done", "panicked"} =>
        /\ mpc = "exited"
        /\ \A p \in Tickers : ~Running(p)
        /\ job_queue = <<>>

\* C6: a producer that waits out its interval after publishing and whose
\* stop signal has been sent can leave the wait at once, whether or not the
\* timer has fired, and it leaves it only to stop: no further cycle starts,
\* also when the timer has fired as well.
C6_CancelPreemptsWait ==
    /\ [](\A p \in Tickers :
             ppc[p] = "wait" /\ stop_signal[p] = "sent" => ENABLED P_Wait(p))
    /\ [][\A p \in Tickers :
             ppc[p] = "wait" /\ stop_signal[p] = "sent" =>
                 /\ ppc'[p] \in {"wait", "stopped"}
                 /\ cycles'[p] = cycles[p]]_vars

\* the signal and the timer are both ready while the producer waits
C6_Witness ==
    \E p \in Tickers : ppc[p] = "wait" /\ stop_signal[p] = "sent" /\ timer[p]

\* C7: main returns only when no producer task runs any more, and once the
\* handler has sent the stop signals every producer stops and main returns.
C7_ShutdownCompletes ==
    /\ [](mpc = "exited" => \A p \in Tickers : ~Running(p))
    /\ (hpc = "done") ~> (mpc = "exited")

\* the requests that exist: queued, or held by the consumer
Requests == job_queue \o held

C9_OneAtATimeInOrder ==
    /\ Len(held) <= 1
    /\ held # <<>> => InBody /\ held[1].seq = ndeq
    /\ cpc = "recv" => held = <<>> /\ nsend = ndeq
    /\ \A i \in 1..Len(job_queue) : job_queue[i].seq = ndeq + i

\* one request is in flight while another one waits in the queue
C9_Witness ==
    held # <<>> /\ job_queue # <<>> /\ ndeq = 1

\* C10: when the budget is used up, the Err to be sent carries the error
\* recorded by the third, last failed attempt.
C10_ErrIsLastFailure ==
    cpc = "deliver" /\ retry_count <= 0 =>
        /\ attempts = 3
        /\ last_fail # NoFail
        /\ Pending = [ok |-> FALSE, err |-> last_fail]

\* the budget is used up and the last failure differs from the first
C10_Witness ==
    cpc = "deliver" /\ retry_count <= 0 /\ first_fail # last_fail

\* the errors the code records for the failures other than a missing
\* member: no response, a body that is not JSON, a price that is no number
\* or no decimal, a change that is no number, and the placeholder
OtherKindErrors ==
    {HttpRequest, JsonParse, Other(MsgPriceNotNumber), ParseBigDecimal,
     Other(MsgChangeNotF64), Other(MsgNoError)}

\* the request for bitcoin is held and every reply for it so far was the
\* asset object with a price and no usd_24h_change
BitcoinNoChange ==
    InBody /\ held # <<>> /\ held[1].name = "bitcoin" /\ nochange_only

\* C11 as stated: with such replies every attempt fails with the
\* missing-member error, Err with that error is sent after the third, and
\* its kind (the variant of QuoteRequestError) is none of the kinds of the
\* other failures.
C11_MissingFieldDistinctKind ==
    BitcoinNoChange /\ attempts >= 1 =>
        /\ ok_reply = NoReply
        /\ err = Other(MsgMissingFields)
        /\ first_fail = err /\ last_fail = err
        /\ cpc = "deliver" => attempts = 3 /\ Pending = [ok |-> FALSE, err |-> err]
        /\ err.variant \notin {e.variant : e \in OtherKindErrors}

\* C11 as amended: the error is Other with the missing-member message; as a
\* value it differs from the error of every other failure, and its variant
\* differs from HttpRequest, JsonParse and ParseBigDecimal.
C11_MissingFieldError ==
    BitcoinNoChange /\ attempts >= 1 =>
        /\ ok_reply = NoReply
        /\ err = Other(MsgMissingFields)
        /\ first_fail = err /\ last_fail = err
        /\ cpc = "deliver" => attempts = 3 /\ Pending = [ok |-> FALSE, err |-> err]
        /\ err \notin OtherKindErrors
        /\ err.variant \notin {HttpRequest.variant, JsonParse.variant,
                               ParseBigDecimal.variant}

\* three such replies have come and the Err is about to be sent
C11_Witness ==
    BitcoinNoChange /\ cpc = "deliver" /\ attempts = 3

\* a producer is about to send its request and the request queue is closed
SubmitToClosedQueue(p) == ppc[p] = "submit" /\ ~job_rx_alive

\* C12: a producer whose submission finds the request queue closed can take
\* a step, every step it can take leaves it stopped with nothing submitted,
\* no timer armed and every other producer, the queue and the channels as
\* they were; once stopped it takes no further step.
C12_ClosedQueueStopsProducer ==
    \A p \in Tickers :
        /\ SubmitToClosedQueue(p) /\ mpc = "join" =>
              /\ ENABLED Producer(p)
              /\ ~ENABLED (/\ Producer(p)
                           /\ ~(/\ ppc'[p] = "stopped"
                                /\ \A q \in Tickers \ {p} : ppc'[q] = ppc[q]
                                /\ cycles' = cycles
                                /\ job_queue' = job_queue
                                /\ timer' = timer
                                /\ stop_signal' = stop_signal
                                /\ get_price_chan' = get_price_chan))
        /\ ppc[p] = "stopped" => ~ENABLED Producer(p) /\ ~ENABLED Tick(p)

\* a producer has stopped on the closed queue, without any stop signal,
\* while another producer is still running
C12_Witness ==
    \E p \in Tickers : \E q \in Tickers \ {p} :
        /\ ppc[p] = "stopped" /\ stop_signal[p] = "empty" /\ ~job_rx_alive
        /\ cycles[p] = 0
        /\ Running(q)

\* the unresolved requests of a producer: those in the queue or held by the
\* consumer, and the results sent to it that it has not read
Unresolved(p) ==
    Cardinality({i \in 1..Len(Requests) : Requests[i].resp_sender = p})
        + Len(get_price_chan[p])

\* C13: every producer has at most one unresolved request, it has one only
\* while it waits for the response, and it is never about to submit with
\* one unresolved.
C13_AtMostOneUnresolved ==
    \A p \in Tickers :
        /\ Unresolved(p) <= 1
        /\ Unresolved(p) = 1 => ppc[p] = "await"
        /\ ppc[p] = "submit" => Unresolved(p) = 0

\* a producer waits for the response to its second request
C13_Witness ==
    \E p \in Tickers : cycles[p] = 2 /\ ppc[p] = "await" /\ Unresolved(p) = 1

\* C14: the shutdown routine sends the signal once to every ticker in turn,
\* whether or not the sends before it failed: it is never blocked while
\* senders remain, it has sent to every ticker when it is done, no ticker
\* is sent the signal twice, and a producer has the signal only from a send.
C14_SignalSentOnceToEach ==
    /\ \A p \in Tickers : sig_sends[p] = (IF p < hidx THEN 1 ELSE 0)
    /\ hpc = "send" /\ mpc = "join" => hidx \in Tickers /\ ENABLED H_Send
    /\ hpc = "done" => \A p \in Tickers : sig_sends[p] = 1
    /\ \A p \in Tickers : stop_signal[p] # "empty" => sig_sends[p] = 1

\* the send to one ticker failed (it had stopped or was never started) and a
\* later ticker was sent the signal all the same
C14_Witness ==
    \E p \in Tickers : \E q \in Tickers :
        /\ p < q
        /\ sig_sends[p] = 1 /\ stop_signal[p] = "empty"
        /\ stop_signal[q] # "empty"

\* the pricing call for the held request has been made
CallMade == InBody /\ call_headers # <<>>

HasApiKeyHeader ==
    \E i \in 1..Len(call_headers) : call_headers[i].name = "x-cg-demo-api-key"

\* C15: every pricing call made carries the API-key header if and only if
\* the configured key is not empty.
C15_ApiKeyHeaderIffNonEmpty ==
    CallMade => (HasApiKeyHeader <=> api_key # "")

\* reading a printed decimal back: where its point is, how many digits
\* follow it, and the integer its digits spell
PointAt(str) ==
    IF \E i \in 1..Len(str) : str[i] = "."
      THEN CHOOSE i \in 1..Len(str) : str[i] = "."
      ELSE 0

FracDigits(str) == IF PointAt(str) = 0 THEN 0 ELSE Len(str) - PointAt(str)

IsDigit(c) == \E n \in 0..9 : DigitChars[n + 1] = c

DigitValue(c) == CHOOSE n \in 0..9 : DigitChars[n + 1] = c

RECURSIVE DigitsValue(_)
DigitsValue(str) ==
    IF str = <<>> THEN 0
    ELSE IF IsDigit(str[Len(str)])
      THEN 10 * DigitsValue(SubSeq(str, 1, Len(str) - 1)) + DigitValue(str[Len(str)])
      ELSE DigitsValue(SubSeq(str, 1, Len(str) - 1))

UnscaledOf(str) ==
    IF str # <<>> /\ str[1] = "-" THEN -DigitsValue(str) ELSE DigitsValue(str)

\* an optional minus sign, digits, and at most one point with a digit on
\* either side
IsDecimalText(str) ==
    /\ str # <<>>
    /\ \A i \in 1..Len(str) :
          \/ IsDigit(str[i])
          \/ i = 1 /\ str[i] = "-"
          \/ /\ str[i] = "."
             /\ i > 1 /\ i < Len(str)
             /\ IsDigit(str[i - 1])
             /\ \A j \in 1..Len(str) : str[j] = "." => j = i
    /\ IsDigit(str[Len(str)])

\* C16: format_price(price, d) prints a decimal. When the price has more
\* than d fractional digits the text has exactly d of them and is a nearest
\* multiple of 10^-d to the price, the even one of two equally near;
\* otherwise the text has the price's own fractional digits and value.
C16_FormatPriceHalfEven ==
    fmt.done =>
        LET x == fmt.price
            d == fmt.decimals
            m == UnscaledOf(fmt.out)
        IN  /\ IsDecimalText(fmt.out)
            /\ IF x.scale > d
                 THEN LET k == 10^(x.scale - d)
                          diff == Abs(x.int_val - m * k)
                      IN  /\ FracDigits(fmt.out) = d
                          /\ 2 * diff <= k
                          /\ 2 * diff = k => m % 2 = 0
                 ELSE /\ FracDigits(fmt.out) = (IF x.scale > 0 THEN x.scale ELSE 0)
                      /\ m = x.int_val * 10^(IF x.scale < 0 THEN -x.scale ELSE 0)

\* 0.125 formatted with two decimals: a tie, rounded to the even 0.12
C16_Witness ==
    /\ fmt.done
    /\ fmt.price = [int_val |-> 125, scale |-> 3]
    /\ fmt.decimals = 2
    /\ fmt.out = <<"0", ".", "1", "2">>

\* a producer has read an Err result and waits out the interval after it
AfterErr(p) == ppc[p] = "err_sleep"

\* C17: a producer that has read an Err result has no request unresolved,
\* takes no step before the interval has elapsed, and submits nothing in the
\* step it takes then.
C17_NoRequestBeforeIntervalAfterErr ==
    \A p \in Tickers :
        AfterErr(p) =>
            /\ Unresolved(p) = 0
            /\ ~timer[p] => ~ENABLED Producer(p)
            /\ ~ENABLED (Producer(p) /\ (cycles' # cycles \/ job_queue' # job_queue))
            /\ timer[p] /\ mpc = "join" => ENABLED (Producer(p) /\ ppc'[p] = "top")

\* a producer waits out the interval after the Err result of its second
\* request, the interval not yet elapsed
C17_Witness ==
    \E p \in Tickers : AfterErr(p) /\ ~timer[p] /\ cycles[p] = 2

\* C18: a producer that waits out the interval after an Err result and has
\* been sent the signal can stop at once.
C18_ErrWaitPreemptible ==
    \A p \in Tickers :
        AfterErr(p) /\ stop_signal[p] = "sent" /\ mpc = "join" =>
            ENABLED (Producer(p) /\ ppc'[p] = "stopped")

\* the cancellation checkpoints of the loop: the top of the cycle, before
\* publishing and after publishing
AtCheckpoint(p) == ppc[p] \in {"top", "pre_publish", "post_publish"}

\* C20: a producer at a checkpoint whose signal has been sent can take a
\* step, and every step it can take leaves it stopped with the signal taken,
\* nothing submitted and nothing published.
C20_CheckpointStops ==
    \A p \in Tickers :
        AtCheckpoint(p) /\ stop_signal[p] = "sent" /\ mpc = "join" =>
            /\ ENABLED Producer(p)
            /\ ~ENABLED (/\ Producer(p)
                         /\ ~(/\ ppc'[p] = "stopped"
                              /\ stop_signal'[p] = "taken"
                              /\ cycles' = cycles
                              /\ job_queue' = job_queue
                              /\ published' = published))

\* one producer has stopped at the top of its first cycle, the signal taken
\* and nothing submitted, and another is before publishing with the signal
\* sent
C20_Witness ==
    \E p \in Tickers : \E q \in Tickers :
        /\ ppc[p] = "stopped" /\ stop_signal[p] = "taken" /\ cycles[p] = 0
        /\ ppc[q] = "pre_publish" /\ stop_signal[q] = "sent"

\* the consumer has dropped the request of producer p, and with it the
\* sender it carried, without sending a result: p waits for the response,
\* none is in its channel and none of its requests is queued or held
SenderDroppedWithoutValue(p) == ppc[p] = "await" /\ Unresolved(p) = 0

\* C19: a producer that waits for a response whose sender the consumer has
\* dropped without a value can go back to the top of its loop at once.
C19_DroppedSenderRestartsCycle ==
    \A p \in Tickers :
        SenderDroppedWithoutValue(p) /\ mpc = "join" =>
            ENABLED (Producer(p) /\ ppc'[p] = "top")

\* C21: no request gets more than three attempts, and every producer that
\* has put a request into the queue and waits for the response is sent a
\* result and leaves that wait.
C21_EveryRequestAnswered ==
    /\ [](attempts <= RetryBudget)
    /\ \A p \in Tickers :
          (ppc[p] = "await" /\ Unresolved(p) = 1 /\ get_price_chan[p] = <<>>)
              ~> (get_price_chan[p] # <<>>)
    /\ \A p \in Tickers : (ppc[p] = "await") ~> (ppc[p] # "await")

\* C22: since its stop signal was sent a producer has submitted at most one
\* request and published at most one update, and never both: the request
\* it was about to send, or the update it was about to publish (counted in
\* the configurations where the history is kept).
C22_AtMostOneMoreAfterSignal ==
    \A p \in Tickers :
        /\ after_signal[p].sub <= 1
        /\ after_signal[p].pub <= 1
        /\ after_signal[p].sub + after_signal[p].pub <= 1
        /\ stop_signal[p] # "sent" => after_signal[p] = [sub |-> 0, pub |-> 0]

\* a producer has submitted a request after its signal was sent, has read
\* the Ok result and is about to stop before publishing
C22_Witness ==
    \E p \in Tickers :
        /\ ppc[p] = "pre_publish" /\ stop_signal[p] = "sent"
        /\ after_signal[p] = [sub |-> 1, pub |-> 0]

\* the data an attempt parses out of a reply for the asset name
ParsedFrom(name, reply) ==
    [name |-> name, price_usd |-> reply.val.usd.v,
     price_change_24h |-> reply.val.chg.v]

\* a result that carries a placeholder: the dummy response, or the error
\* the consumer starts with
IsPlaceholder(v) ==
    IF v.ok THEN v.val = Dummy \/ v.val.name = "dummy"
    ELSE v.err = Other(MsgNoError)

\* C23: the result about to be sent is Ok only when an attempt succeeded,
\* and then carries the data parsed from that attempt's reply; it is Err
\* only after three recorded failures, and then carries the last of them;
\* no result sent or about to be sent carries a placeholder.
C23_PlaceholdersNeverDelivered ==
    /\ cpc = "deliver" =>
          /\ ~IsPlaceholder(Pending)
          /\ Pending.ok =>
                /\ ok_reply # NoReply
                /\ Pending.val = ParsedFrom(held[Len(held)].name, ok_reply)
          /\ ~Pending.ok =>
                /\ ok_reply = NoReply
                /\ sleeps = RetryBudget
                /\ last_fail # NoFail /\ Pending.err = last_fail
    /\ \A p \in Tickers : \A i \in 1..Len(get_price_chan[p]) :
          ~IsPlaceholder(get_price_chan[p][i])

\* an Ok result waits in one producer's channel while the Err result of a
\* request that failed three times is about to be sent
C23_Witness ==
    /\ cpc = "deliver" /\ ~Pending.ok /\ sleeps = RetryBudget
    /\ \E p \in Tickers : get_price_chan[p] # <<>> /\ Head(get_price_chan[p]).ok

\* C24: the response channel of a running producer has a live sender; a
\* producer that waits for the response takes no step while its channel is
\* empty, and every step it takes out of the wait removes a value from it.
C24_NeverObservesClosedChannel ==
    \A p \in Tickers :
        /\ Running(p) => SenderCount(p) >= 1
        /\ ppc[p] = "await" =>
              /\ get_price_chan[p] = <<>> => ~ENABLED Producer(p)
              /\ ~ENABLED (/\ Producer(p)
                           /\ get_price_chan'[p] # Tail(get_price_chan[p]))

\* the consumer thread has died and dropped the request of a producer that
\* waits for the response: the only sender left is the producer's own
C24_Witness ==
    \E p \in Tickers :
        /\ ppc[p] = "await" /\ cpc = "panicked"
        /\ Unresolved(p) = 0 /\ SenderCount(p) = 1

====
